---- MODULE Spec2Model ----
(***************************************************************************)
(* Model of the yes-watch astronomy engine (src/c/yes_astro.c): the angle  *)
(* adapters, the solar-position evaluator sun_sin_alt_scaled and the       *)
(* sunrise/sunset solver calc_sunrise_sunset_local.                        *)
(*                                                                         *)
(* The solver is a state machine: one action per loop iteration of the     *)
(* coarse scan and of the bisection, so that every intermediate value of   *)
(* its locals (rise, set, above_count, prev_above, lo, hi) is a state.     *)
(*                                                                         *)
(* The input of a call is a "sky".  A sky of kind "geo" is a date and a    *)
(* location: its above/below samples are computed by sun_sin_alt_scaled.   *)
(* A sky of kind "pattern" stands for the results of the solar-position    *)
(* function directly: an arbitrary above/below function of the minute,     *)
(* given by its value at minute 0 and the minutes at which it flips.       *)
(***************************************************************************)
EXTENDS Integers, Sequences, FiniteSets, TLC

VARIABLES
  universe,     \* which family of inputs the run draws its calls from
  pc,           \* position in calc_sunrise_sunset_local: idle, loop, bisect, done
  sky,          \* the arguments of the call in progress
  step,         \* coarse sample step in minutes (const int step)
  out,          \* SunTimes out
  rise, set,    \* int rise, set
  above_count,  \* int above_count
  prev_above,   \* bool prev_above
  above,        \* bool above (the coarse sample of the current iteration)
  m,            \* loop variable of the coarse scan
  lo, hi, i,    \* bisection bracket and iteration counter
  coarse_evals, \* number of coarse evaluations of the solar-position function
  bisections,   \* number of bisections run in this call
  bisect_evals, \* number of evaluations at bisection midpoints in this call
  calls,        \* number of calls started so far
  memo,         \* results of completed calls: set of <<sky, step, out>>
  ref,          \* result of the 10-minute run kept for the 1-minute rerun
  tm_static,    \* the platform's struct tm that gmtime fills and returns
  caller,       \* the caller's cells the local-time helpers write through
  last,         \* the arguments of the latest helper call and the cells before it
  thr,          \* the calls of the helpers in progress on concurrent threads
  calc,         \* the latest evaluation of a pure function: arguments and result
  draw          \* yes_draw.c: its statics, the platform objects it holds and
                \* what it has put on the display

vars == <<universe, pc, sky, step, out, rise, set, above_count, prev_above,
          above, m, lo, hi, i, coarse_evals, bisections, bisect_evals,
          calls, memo, ref,
          tm_static, caller, last, thr, calc, draw>>

(***************************************************************************)
(* Bounds of the model.                                                    *)
(***************************************************************************)
\* largest number of flips of an above/below pattern within the day
MaxFlips == 3
\* largest number of calls in a run of repeated calls
MaxCalls == 3
\* number of years after FirstYear whose dates are inputs
YearSpan == 1
\* calls into yes_draw.c in one run
MaxDrawOps == 6

\* consecutive 5-second periods in which a slot is drawn
SlotPeriods == 6

\* draws of the step count in one run
MaxStepsCalls == 5

\* largest number of helper calls in a clock run
MaxHelperCalls == 1

(***************************************************************************)
(* C integer arithmetic.                                                   *)
(***************************************************************************)
\* F applied to the value of v: v is evaluated once, however often F uses it.
Bind(v, F(_)) == CHOOSE r \in { F(x) : x \in {v} } : TRUE

Abs(x) == IF x < 0 THEN -x ELSE x

Sgn(x) == IF x < 0 THEN -1 ELSE 1

\* C's integer division: the quotient truncated toward zero (b > 0).
CDiv(a, b) == Bind(a, LAMBDA x : IF x >= 0 THEN x \div b ELSE -((-x) \div b))

\* C's remainder: it has the sign of the dividend (b > 0).
CMod(a, b) == Bind(a, LAMBDA x : x - b * CDiv(x, b))

\* the largest int32_t
INT32_MAX == 2147483647

\* From h = <<q, r>> with p = q * c + r to the pair for 2 * p + add.
QRDouble(h, add, c) ==
  Bind(h, LAMBDA x :
    <<2 * x[1] + (add \div c) + ((2 * x[2] + (add % c)) \div c),
      (2 * x[2] + (add % c)) % c>>)

\* <<q, r>> with (int64_t)a * b = q * c + r and 0 <= r < c, for a, b >= 0 and
\* c > 0, by doubling over the bits of b: no intermediate exceeds 3 * c.
RECURSIVE MulDivQR(_, _, _)
MulDivQR(a, b, c) ==
  IF b = 0 THEN <<0, 0>>
  ELSE QRDouble(MulDivQR(a, b \div 2, c), IF b % 2 = 1 THEN a ELSE 0, c)

\* (int64_t)a * (int64_t)b / c as C computes it: the exact 64-bit product,
\* divided with truncation toward zero.  A product that fits the model's
\* integers is formed directly.
MulDiv64(a, b, c) ==
  Bind(a, LAMBDA x : Bind(b, LAMBDA y :
    IF x = 0 \/ Abs(y) <= INT32_MAX \div Abs(x)
    THEN CDiv(x * y, c)
    ELSE Sgn(x) * Sgn(y)
         * (IF Abs(x) >= Abs(y) THEN MulDivQR(Abs(x), Abs(y), c)
                                ELSE MulDivQR(Abs(y), Abs(x), c))[1]))

\* Int32 with a 16-bit target type
Int16(v) ==
  Bind(v, LAMBDA x : ((x + 32768) % 65536) - 32768)

\* The narrowing cast (int32_t)x.  Every integer of the model is a 32-bit
\* value: a 64-bit intermediate outside that range stops TLC with an
\* overflow error instead of wrapping silently.
Int32(v) ==
  Bind(v, LAMBDA x :
    IF x > INT32_MAX THEN x - INT32_MAX - INT32_MAX - 2
    ELSE IF x < -INT32_MAX - 1 THEN x + INT32_MAX + INT32_MAX + 2
    ELSE x)

(***************************************************************************)
(* The platform's table-driven trigonometry (sin_lookup, cos_lookup): one  *)
(* full turn is TRIG_MAX_ANGLE, results are scaled by TRIG_MAX_RATIO.  The *)
(* table holds the first quadrant in steps of TRIG_MAX_ANGLE / 1024 and is *)
(* interpolated linearly.                                                  *)
(***************************************************************************)
TRIG_MAX_ANGLE == 65536

TRIG_MAX_RATIO == 65535

TABLE_STEP == 64

SIN_LOOKUP ==
  << 0, 402, 804, 1206, 1608, 2010, 2412, 2814, 3216, 3617,
     4019, 4420, 4821, 5222, 5623, 6023, 6424, 6824, 7223, 7623,
     8022, 8421, 8820, 9218, 9616, 10014, 10411, 10808, 11204, 11600,
     11996, 12391, 12785, 13179, 13573, 13966, 14359, 14751, 15142, 15533,
     15924, 16313, 16703, 17091, 17479, 17866, 18253, 18639, 19024, 19408,
     19792, 20175, 20557, 20939, 21319, 21699, 22078, 22456, 22834, 23210,
     23586, 23960, 24334, 24707, 25079, 25450, 25820, 26189, 26557, 26925,
     27291, 27656, 28020, 28383, 28745, 29106, 29465, 29824, 30181, 30538,
     30893, 31247, 31600, 31952, 32302, 32651, 32999, 33346, 33692, 34036,
     34379, 34721, 35061, 35400, 35738, 36074, 36409, 36743, 37075, 37406,
     37736, 38064, 38390, 38715, 39039, 39361, 39682, 40001, 40319, 40635,
     40950, 41263, 41575, 41885, 42194, 42500, 42806, 43109, 43411, 43712,
     44011, 44308, 44603, 44897, 45189, 45479, 45768, 46055, 46340, 46624,
     46905, 47185, 47464, 47740, 48014, 48287, 48558, 48827, 49095, 49360,
     49624, 49885, 50145, 50403, 50659, 50913, 51166, 51416, 51664, 51911,
     52155, 52398, 52638, 52877, 53113, 53348, 53580, 53811, 54039, 54266,
     54490, 54713, 54933, 55151, 55367, 55582, 55794, 56003, 56211, 56417,
     56620, 56822, 57021, 57218, 57413, 57606, 57797, 57985, 58171, 58356,
     58537, 58717, 58895, 59070, 59243, 59414, 59582, 59749, 59913, 60075,
     60234, 60391, 60546, 60699, 60850, 60998, 61144, 61287, 61429, 61567,
     61704, 61838, 61970, 62100, 62227, 62352, 62475, 62595, 62713, 62829,
     62942, 63053, 63161, 63267, 63371, 63472, 63571, 63668, 63762, 63853,
     63943, 64030, 64114, 64196, 64276, 64353, 64428, 64500, 64570, 64638,
     64703, 64765, 64826, 64883, 64939, 64992, 65042, 65090, 65136, 65179,
     65219, 65258, 65293, 65327, 65357, 65386, 65412, 65435, 65456, 65475,
     65491, 65504, 65515, 65524, 65530, 65534, 65535 >>

\* the table value for an angle a of the first quadrant, 0 <= a <= TRIG_MAX_ANGLE / 4
SinQuadrant(a) ==
  IF a % TABLE_STEP = 0 THEN SIN_LOOKUP[a \div TABLE_STEP + 1]
  ELSE SIN_LOOKUP[a \div TABLE_STEP + 1]
       + ((SIN_LOOKUP[a \div TABLE_STEP + 2] - SIN_LOOKUP[a \div TABLE_STEP + 1])
          * (a % TABLE_STEP)) \div TABLE_STEP

\* the sine of an angle a of the first half turn, 0 <= a < TRIG_MAX_ANGLE / 2
SinHalfTurn(a) ==
  IF a > TRIG_MAX_ANGLE \div 4 THEN SinQuadrant(TRIG_MAX_ANGLE \div 2 - a)
  ELSE SinQuadrant(a)

\* the sine of an angle a of one turn, 0 <= a < TRIG_MAX_ANGLE
SinTurn(a) ==
  IF a >= TRIG_MAX_ANGLE \div 2 THEN -SinHalfTurn(a - TRIG_MAX_ANGLE \div 2)
  ELSE SinHalfTurn(a)

sin_lookup(angle) ==
  Bind(angle, LAMBDA a :
    IF a < 0 THEN -SinTurn((-a) % TRIG_MAX_ANGLE) ELSE SinTurn(a % TRIG_MAX_ANGLE))

cos_lookup(angle) == sin_lookup(angle + TRIG_MAX_ANGLE \div 4)

(***************************************************************************)
(* Angle adapters.                                                         *)
(***************************************************************************)
\* deg_e6_to_trig rounding toward minus infinity instead of toward zero
deg_e6_to_trig_floor(deg_e6) ==
  Int32(MulDiv64(TRIG_MAX_ANGLE, deg_e6, 360 * 1000000))
  - (IF deg_e6 < 0 /\ CMod(deg_e6, 703125) # 0 THEN 1 ELSE 0)

deg_e6_to_trig(deg_e6) == Int32(MulDiv64(TRIG_MAX_ANGLE, deg_e6, 360 * 1000000))

rad_e6_to_trig(rad_e6) == Int32(MulDiv64(TRIG_MAX_ANGLE, rad_e6, 6283185))

trig_sin(a) == sin_lookup(a)

trig_cos(a) == cos_lookup(a)

(***************************************************************************)
(* day_of_year and clamp_i32.                                              *)
(***************************************************************************)
days_before_month == <<0, 31, 59, 90, 120, 151, 181, 212, 243, 273, 304, 334>>

\* IsLeap without the century rule
IsLeapJulian(year) == CMod(year, 4) = 0

\* const bool leap: divisible by 4 and not by 100, or divisible by 400
IsLeap(year) ==
  (CMod(year, 4) = 0 /\ CMod(year, 100) # 0) \/ CMod(year, 400) = 0

day_of_year(year, month_1_12, day_1_31) ==
  LET doy == days_before_month[month_1_12] + day_1_31
  IN  IF IsLeap(year) /\ month_1_12 > 2 THEN doy + 1 ELSE doy

clamp_i32(v, lo_, hi_) ==
  IF v < lo_ THEN lo_ ELSE IF v > hi_ THEN hi_ ELSE v

(***************************************************************************)
(* sun_sin_alt_scaled: sin(altitude) of the sun at a minute of the day,    *)
(* scaled by TRIG_MAX_RATIO.                                               *)
(***************************************************************************)
\* gamma, the year-fraction angle
YearAngle(N, minute_of_day) ==
  Int32(MulDiv64(TRIG_MAX_ANGLE, N - 1, 365)
        + MulDiv64(TRIG_MAX_ANGLE, minute_of_day - 720, 365 * 1440))

\* sum_e6, the bracket of the equation of time in parts per million
EqTimeSum(sin1, cos1, sin2, cos2) ==
  75 + MulDiv64(1868, cos1, TRIG_MAX_RATIO)
     + MulDiv64(-32077, sin1, TRIG_MAX_RATIO)
     + MulDiv64(-14615, cos2, TRIG_MAX_RATIO)
     + MulDiv64(-40849, sin2, TRIG_MAX_RATIO)

\* eqtime_sec, the equation-of-time term added to the true solar time
EqTimeSec(gamma) ==
  Int32(MulDiv64(13750800,
                 EqTimeSum(trig_sin(gamma), trig_cos(gamma),
                           trig_sin(gamma * 2), trig_cos(gamma * 2)),
                 1000000))

\* DeclE6 with the sign of the leading cosine term flipped
DeclE6Flipped(sin1, cos1, sin2, cos2, sin3, cos3) ==
  6918 + MulDiv64(399912, cos1, TRIG_MAX_RATIO)
       + MulDiv64(70257, sin1, TRIG_MAX_RATIO)
       + MulDiv64(-6758, cos2, TRIG_MAX_RATIO)
       + MulDiv64(907, sin2, TRIG_MAX_RATIO)
       + MulDiv64(-2697, cos3, TRIG_MAX_RATIO)
       + MulDiv64(1480, sin3, TRIG_MAX_RATIO)

\* decl_e6, the solar declination in radians, scale 1e6
DeclE6(sin1, cos1, sin2, cos2, sin3, cos3) ==
  6918 + MulDiv64(-399912, cos1, TRIG_MAX_RATIO)
       + MulDiv64(70257, sin1, TRIG_MAX_RATIO)
       + MulDiv64(-6758, cos2, TRIG_MAX_RATIO)
       + MulDiv64(907, sin2, TRIG_MAX_RATIO)
       + MulDiv64(-2697, cos3, TRIG_MAX_RATIO)
       + MulDiv64(1480, sin3, TRIG_MAX_RATIO)

\* decl_trig, the solar declination in native angle units
DeclTrig(gamma) ==
  rad_e6_to_trig(Int32(DeclE6(trig_sin(gamma), trig_cos(gamma),
                              trig_sin(gamma * 2), trig_cos(gamma * 2),
                              trig_sin(gamma * 3), trig_cos(gamma * 3))))

\* tst_sec before the reduction into one day
RawSolarTime(minute_of_day, eqtime_sec, lon_e6, tz_offset_min) ==
  minute_of_day * 60 + eqtime_sec + MulDiv64(240, lon_e6, 1000000)
  - tz_offset_min * 60

\* ReduceDay without the correction of a negative remainder
ReduceDayTruncated(tst_sec) == CMod(tst_sec, 86400)

\* tst_sec %= 86400; if (tst_sec < 0) tst_sec += 86400;
ReduceDay(tst_sec) ==
  Bind(CMod(tst_sec, 86400), LAMBDA t : IF t < 0 THEN t + 86400 ELSE t)

\* HourAngle counted from solar midnight instead of solar noon
HourAngleFromMidnight(tst_sec) == Int32(MulDiv64(TRIG_MAX_ANGLE, tst_sec, 86400))

\* ha_trig, the hour angle in native angle units
HourAngle(tst_sec) == Int32(MulDiv64(TRIG_MAX_ANGLE, tst_sec - 43200, 86400))

\* sin(alt) = sin(lat) sin(dec) + cos(lat) cos(dec) cos(ha), clamped to 32 bits
SinAltitude(lat_trig, decl_trig, ha_trig) ==
  Bind(MulDiv64(trig_sin(lat_trig), trig_sin(decl_trig), TRIG_MAX_RATIO)
       + MulDiv64(MulDiv64(trig_cos(lat_trig), trig_cos(decl_trig), TRIG_MAX_RATIO),
                  trig_cos(ha_trig), TRIG_MAX_RATIO),
       LAMBDA s : Int32(clamp_i32(s, -INT32_MAX - 1, INT32_MAX)))

sun_sin_alt_scaled(N, minute_of_day, lat_e6, lon_e6, tz_offset_min) ==
  Bind(YearAngle(N, minute_of_day), LAMBDA gamma :
    SinAltitude(deg_e6_to_trig(lat_e6),
                DeclTrig(gamma),
                HourAngle(ReduceDay(RawSolarTime(minute_of_day, EqTimeSec(gamma),
                                                 lon_e6, tz_offset_min)))))

\* the sunrise/sunset threshold: sun centre at -0.833 degrees altitude
sin_h0 == trig_sin(deg_e6_to_trig(-833000))

(***************************************************************************)
(* The local-time helpers ymd_for_loc_now and get_location_local_tm, and   *)
(* the platform calls they make: time(NULL) returns the seconds since the  *)
(* epoch, gmtime breaks them down into its own struct tm (or fails).       *)
(***************************************************************************)
\* the civil date <<year, month, day>> of day z, counted from 1970-01-01
CivilFromDays(z) ==
  LET zz  == z + 719468
      era == (IF zz >= 0 THEN zz ELSE zz - 146096) \div 146097
      doe == zz - era * 146097
      yoe == (doe - doe \div 1460 + doe \div 36524 - doe \div 146096) \div 365
      doy == doe - (365 * yoe + yoe \div 4 - yoe \div 100)
      mp  == (5 * doy + 2) \div 153
      d   == doy - (153 * mp + 2) \div 5 + 1
      mo  == IF mp < 10 THEN mp + 3 ELSE mp - 9
      y   == yoe + era * 400 + (IF mo <= 2 THEN 1 ELSE 0)
  IN  <<y, mo, d>>

\* the struct tm gmtime fills for t seconds since the epoch
GmTime(t) ==
  LET ymd == CivilFromDays(t \div 86400)
      sod == t % 86400
  IN  [tm_year |-> ymd[1] - 1900, tm_mon |-> ymd[2] - 1, tm_mday |-> ymd[3],
       tm_hour |-> sod \div 3600, tm_min |-> (sod % 3600) \div 60,
       tm_sec |-> sod % 60]

TmZero ==
  [tm_year |-> 0, tm_mon |-> 0, tm_mday |-> 0, tm_hour |-> 0, tm_min |-> 0,
   tm_sec |-> 0]

\* const GeoLoc *loc: a null pointer, or a pointer to a location
NullLoc == [null |-> TRUE, valid |-> FALSE, tz_offset_min |-> 0]

Loc(valid, tz) == [null |-> FALSE, valid |-> valid, tz_offset_min |-> tz]

\* the value time(NULL) returns in a run of repeated calls: 2024-01-01T04:30:00Z
ClockValues == {1704083400}

\* the locations of the helper calls of a run of repeated calls
RepeatLocs == {NullLoc, Loc(TRUE, -300)}

\* the caller's cells before any helper wrote to them
CallerInit ==
  [ret |-> 0, y |-> -1, m |-> -1, d |-> -1, tm |-> TmZero, minutes |-> -1]

\* no helper was called yet
NoHelperCall ==
  [fn |-> "none", loc |-> NullLoc, now_utc |-> 0, gm_null |-> FALSE,
   has_y |-> FALSE, has_m |-> FALSE, has_d |-> FALSE, has_minutes |-> FALSE,
   before |-> CallerInit]

\* the instants of the helper calls of a clock run, in seconds since the
\* epoch: 1969-12-31T23:59:59Z, the epoch, 2023-12-31T23:59:59Z,
\* 2024-01-01T04:30:00Z, 2024-02-28T23:30:00Z, 2024-02-29T12:00:00Z,
\* 2024-12-31T18:29:00Z
ClockInstants ==
  {-1, 0, 1704067199, 1704083400, 1709163000, 1709208000, 1735669740}

\* the calls a run of universe u may make
CallsOf(u) == IF u = "clock" THEN MaxHelperCalls ELSE MaxCalls

\* the locations of the helper calls of a clock run
ClockLocs ==
  {NullLoc, Loc(FALSE, 60), Loc(TRUE, -300), Loc(TRUE, 0), Loc(TRUE, 330),
   Loc(TRUE, 840), Loc(TRUE, -720)}

LocsOf(u) == IF u = "clock" THEN ClockLocs ELSE RepeatLocs

ClocksOf(u) == IF u = "clock" THEN ClockInstants ELSE ClockValues

\* the out pointers of a helper call that are non-null: <<out_y, out_m,
\* out_d, out_minutes_since_midnight>>
PointersOf(u) ==
  IF u = "clock"
  THEN {<<TRUE, TRUE, TRUE, TRUE>>, <<FALSE, FALSE, FALSE, FALSE>>,
        <<TRUE, FALSE, TRUE, TRUE>>, <<FALSE, TRUE, FALSE, FALSE>>}
  ELSE {<<TRUE, TRUE, TRUE, TRUE>>}

\* no thread is inside a helper
NoThreads == <<>>

\* no function was evaluated yet
NoCalc == [fn |-> "none"]

\* the threads of a concurrent run
Threads == {1, 2}

\* a thread before its call: its arguments are not chosen yet, its out
\* cells (all non-null) are not written
ThreadIdle ==
  [pc |-> "idle", fn |-> "none", loc |-> NullLoc, now_utc |-> 0,
   gm_null |-> FALSE, y |-> -1, m |-> -1, d |-> -1, tm |-> TmZero,
   minutes |-> -1, ret |-> -1]

\* the locations and the instant of the calls of a concurrent run
ThreadLocs == {NullLoc, Loc(TRUE, -300), Loc(TRUE, 330)}

ThreadsOf(u) == IF u = "threads" THEN [t \in Threads |-> ThreadIdle] ELSE NoThreads

\* BadLoc without the test of the valid flag
BadLocNullOnly(loc) == loc.null

\* !loc || !loc->valid
BadLoc(loc) == loc.null \/ ~loc.valid

\* Shifted with the offset added in minutes, not converted to seconds
ShiftedNoScale(now_utc, loc) == now_utc + loc.tz_offset_min

\* now_utc + (time_t)loc->tz_offset_min * 60
Shifted(now_utc, loc) == now_utc + loc.tz_offset_min * 60

\* TmMonth without the step from gmtime's 0-based month
TmMonthRaw(tm) == tm.tm_mon

\* const int m = tm_p->tm_mon + 1;
TmMonth(tm) == tm.tm_mon + 1

\* return y * 10000 + m * 100 + d;
PackYmd(y, mo, d) == y * 10000 + mo * 100 + d

\* ymd_for_loc_now(loc, out_y, out_m, out_d) at clock value now_utc; the out
\* pointers are non-null as has_y, has_m, has_d say; gmtime fails as gm_null says.
ymd_for_loc_now(loc, has_y, has_m, has_d, now_utc, gm_null) ==
  IF BadLoc(loc)
  THEN /\ caller' = [caller EXCEPT !.ret = 0]
       /\ UNCHANGED tm_static
  ELSE IF gm_null
  THEN /\ caller' = [caller EXCEPT !.ret = 0]
       /\ UNCHANGED tm_static
  ELSE /\ tm_static' = GmTime(Shifted(now_utc, loc))
       /\ LET y == tm_static'.tm_year + 1900
              mo == TmMonth(tm_static')
              d == tm_static'.tm_mday
          IN  caller' = [caller EXCEPT
                           !.y = IF has_y THEN y ELSE @,
                           !.m = IF has_m THEN mo ELSE @,
                           !.d = IF has_d THEN d ELSE @,
                           !.ret = PackYmd(y, mo, d)]

\* get_location_local_tm clearing its outputs before it looks at its arguments
get_location_local_tm_clearing(loc, has_minutes, now_utc, gm_null) ==
  IF BadLoc(loc) \/ gm_null
  THEN /\ caller' = [caller EXCEPT !.ret = 0, !.tm = TmZero,
                                   !.minutes = IF has_minutes THEN 0 ELSE @]
       /\ UNCHANGED tm_static
  ELSE /\ tm_static' = GmTime(Shifted(now_utc, loc))
       /\ caller' = [caller EXCEPT
                       !.tm = tm_static',
                       !.minutes = IF has_minutes
                                   THEN tm_static'.tm_hour * 60 + tm_static'.tm_min
                                   ELSE @,
                       !.ret = 1]

\* get_location_local_tm(loc, out_tm, out_minutes_since_midnight); the result
\* false is 0 and true is 1 in caller.ret.
get_location_local_tm(loc, has_minutes, now_utc, gm_null) ==
  IF BadLoc(loc)
  THEN /\ caller' = [caller EXCEPT !.ret = 0]
       /\ UNCHANGED tm_static
  ELSE IF gm_null
  THEN /\ caller' = [caller EXCEPT !.ret = 0]
       /\ UNCHANGED tm_static
  ELSE /\ tm_static' = GmTime(Shifted(now_utc, loc))
       /\ caller' = [caller EXCEPT
                       !.tm = tm_static',
                       !.minutes = IF has_minutes
                                   THEN tm_static'.tm_hour * 60 + tm_static'.tm_min
                                   ELSE @,
                       !.ret = 1]

(***************************************************************************)
(* yes_draw.c: the hand path.                                              *)
(***************************************************************************)
\* s_hand_path = NULL
NullPath == 0

\* the statics of yes_draw.c before yes_draw_init, no path allocated:
\* hand_path is s_hand_path, live the paths gpath_create has returned and
\* gpath_destroy has not been given, log the platform calls made so far
DrawStart ==
  [hand_path |-> NullPath, live |-> {}, next_path |-> 1, log |-> <<>>,
   ops |-> 0,
   \* tl_draw_steps: its two statics, the platform clock, the queries made
   \* of the health service and the text last drawn
   steps_cached |-> -1, steps_cached_at |-> 0, clock |-> 1704083400,
   queries |-> <<>>, shown |-> ""]

\* yes_draw_deinit leaving the handle as it is after gpath_destroy
HandleKept(h) == h

\* s_hand_path = NULL;
HandleCleared(h) == NullPath

\* gpath_create: a path not handed out before, or NULL when out of memory
GPathCreate(d) == {d.next_path, NullPath}

\* what yes_draw_init leaves behind
yes_draw_init(d) ==
  IF d.hand_path = NullPath
  THEN { [d EXCEPT !.hand_path = p,
                   !.live = IF p = NullPath THEN @ ELSE @ \cup {p},
                   !.next_path = IF p = NullPath THEN @ ELSE @ + 1,
                   !.log = Append(@, <<"create", p>>)] : p \in GPathCreate(d) }
  ELSE {d}

\* what yes_draw_deinit leaves behind
yes_draw_deinit(d) ==
  IF d.hand_path # NullPath
  THEN [d EXCEPT !.live = @ \ {d.hand_path},
                 !.log = Append(@, <<"destroy", d.hand_path>>),
                 !.hand_path = HandleCleared(@)]
  ELSE d

\* the hand of yes_draw_face: drawn through s_hand_path when it is set and
\* the hand is longer than 16 pixels
DrawHand(d, hand_len) ==
  IF d.hand_path # NullPath /\ hand_len > 16
  THEN [d EXCEPT !.log = Append(@, <<"draw", d.hand_path>>)]
  ELSE d

(***************************************************************************)
(* yes_draw.c: the corner slots.                                           *)
(***************************************************************************)
\* a SlotComp: avail is set in all the tables of yes_draw_corners
SlotComp(exclusive) == [has_avail |-> TRUE, exclusive |-> exclusive]

\* the comps[] tables of yes_draw_corners: top left, bottom left (weather),
\* bottom right
SlotTables ==
  [tl |-> <<SlotComp(TRUE), SlotComp(FALSE), SlotComp(FALSE)>>,
   bl |-> <<SlotComp(FALSE), SlotComp(FALSE), SlotComp(FALSE),
            SlotComp(FALSE), SlotComp(FALSE)>>,
   br |-> <<SlotComp(TRUE), SlotComp(FALSE), SlotComp(FALSE),
            SlotComp(FALSE), SlotComp(FALSE)>>]

\* !comps[i].avail || comps[i].avail(c), with av[i] what avail(c) returns
CompAvailable(comps, av, k) == ~comps[k].has_avail \/ av[k]

\* the position in the cycle changing every second
CycleIndexPerSecond(now, n) == now % n

\* (now / 5) % (time_t)n
CycleIndex(now, n) == (now \div 5) % n

\* idxs[]: the 0-based indices of the available components from position k
\* on, in list order, appended to acc; idxs[] has room for 12
RECURSIVE Collect(_, _, _, _)
Collect(comps, av, k, acc) ==
  IF k > Len(comps) \/ Len(acc) >= 12 THEN acc
  ELSE Collect(comps, av, k + 1,
               IF CompAvailable(comps, av, k) THEN Append(acc, k - 1) ELSE acc)

\* slot_pick_index(comps, count, c, now): a 0-based index into comps, or -1
slot_pick_index(comps, av, now) ==
  LET excl == { k \in 1..Len(comps) :
                  comps[k].exclusive /\ CompAvailable(comps, av, k) }
      idxs == Collect(comps, av, 1, <<>>)
  IN  IF excl # {} THEN (CHOOSE k \in excl : \A j \in excl : k <= j) - 1
      ELSE IF Len(idxs) <= 0 THEN -1
      ELSE idxs[CycleIndex(now, Len(idxs)) + 1]

(***************************************************************************)
(* yes_draw.c: the step count of the top-left slot.                        *)
(***************************************************************************)
\* the cache taken as stale one second early
CacheStaleEarly(cached_at, now) == cached_at = 0 \/ (now - cached_at) >= 59

\* s_steps_cached_at == 0 || (now - s_steps_cached_at) >= 60
CacheStale(cached_at, now) == cached_at = 0 \/ (now - cached_at) >= 60

\* the text drawn for a step count: "--", "%dk" of steps / 1000, or "%d"
StepsText(steps) ==
  IF steps < 0 THEN "--"
  ELSE IF steps >= 10000 THEN ToString(CDiv(steps, 1000)) \o "k"
  ELSE ToString(steps)

\* tl_draw_steps at clock value now; health is what the health service
\* would answer: -1 when the metric is not accessible, else today's sum
tl_draw_steps(d, now, health) ==
  LET q == CacheStale(d.steps_cached_at, now)
      cached == IF q THEN health ELSE d.steps_cached
  IN  [d EXCEPT !.steps_cached = cached,
                !.steps_cached_at = IF q THEN now ELSE @,
                !.queries = IF q THEN Append(@, [at |-> now, steps |-> health])
                            ELSE @,
                !.clock = now,
                !.shown = StepsText(cached)]

(***************************************************************************)
(* yes_draw.c: the sun countdown of the bottom-right slot.                 *)
(***************************************************************************)
\* printf's %02d for a value of 0..99
TwoDigits(v) == IF v < 10 THEN "0" \o ToString(v) ELSE ToString(v)

\* const bool to_sunrise = (now_min < sr) || (now_min >= ss);
ToSunrise(now_min, sr, ss) == now_min < sr \/ now_min >= ss

\* br_draw_sun_cd with now_min what br_compute_now_min returned: the label,
\* the minutes counted down and the text drawn
br_draw_sun_cd(sun, now_min) ==
  IF sun.always_day THEN [lab |-> "", dmin |-> 0, text |-> "SUN DAY"]
  ELSE IF sun.always_night THEN [lab |-> "", dmin |-> 0, text |-> "SUN NITE"]
  ELSE IF now_min >= 0
  THEN LET sr == sun.sunrise_min
           ss == sun.sunset_min
           to_sunrise == ToSunrise(now_min, sr, ss)
           lab == IF to_sunrise THEN "SR" ELSE "SS"
           d0 == IF to_sunrise
                 THEN IF now_min < sr THEN sr - now_min
                      ELSE (1440 - now_min) + sr
                 ELSE ss - now_min
           dmin == IF d0 < 0 THEN 0 ELSE d0
       IN  [lab |-> lab, dmin |-> dmin,
            text |-> lab \o " in " \o ToString(CDiv(dmin, 60)) \o ":"
                       \o TwoDigits(CMod(dmin, 60))]
  ELSE [lab |-> "", dmin |-> 0, text |-> ""]

(***************************************************************************)
(* The inputs of a call.                                                   *)
(***************************************************************************)
\* no call in progress
NoSky ==
  [kind |-> "none", first |-> FALSE, flips |-> {},
   year |-> 0, month |-> 0, day |-> 0, lat_e7 |-> 0, lon_e7 |-> 0, tz |-> 0]

\* An above/below function of the minute: its value at minute 0 and the
\* minutes at which it flips.
PatternSky(first, flips) ==
  [kind |-> "pattern", first |-> first, flips |-> flips,
   year |-> 0, month |-> 0, day |-> 0, lat_e7 |-> 0, lon_e7 |-> 0, tz |-> 0]

\* A date and a location; the coordinates in units of 1e-7 degree.
GeoSky(year, month, day, lat_e7, lon_e7, tz) ==
  [kind |-> "geo", first |-> FALSE, flips |-> {},
   year |-> year, month |-> month, day |-> day,
   lat_e7 |-> lat_e7, lon_e7 |-> lon_e7, tz |-> tz]

\* the minutes at which a pattern may flip
FlipMinutes == {3, 5, 7, 10, 355, 360, 1431, 1439}

\* years of the dates of the geo skies: FirstYear .. FirstYear + YearSpan
FirstYear == 2023

\* the solstices, an equinox and the turn of the year
SunDays == {<<1, 1>>, <<3, 20>>, <<6, 21>>, <<9, 30>>, <<12, 21>>}

\* latitudes, in units of 1e-7 degree: 75 N, 59.9999994 N, 40 N, 0, 35.5 S
SunLats == {750000000, 599999994, 400000000, 0, -355000000}

\* longitudes, in degrees, each with the UTC offset 4 * longitude minutes
SunLons == {-120, 0, 15}

SunSkies ==
  { GeoSky(FirstYear + dy, d[1], d[2], lat, lon * 10000000, 4 * lon) :
      dy \in 0..YearSpan, d \in SunDays, lat \in SunLats, lon \in SunLons }

\* the skies on which the 10-minute and the 1-minute scan are compared
StepSkies ==
  { GeoSky(FirstYear, d[1], d[2], lat, 0, 0) :
      d \in {<<1, 1>>, <<6, 21>>}, lat \in {750000000, 599999994, 0} }

\* the skies of a run of repeated calls
RepeatSkies ==
  { PatternSky(FALSE, {}), PatternSky(FALSE, {5}),
    GeoSky(FirstYear, 1, 1, 599999994, 0, 0) }

PatternSkies ==
  { PatternSky(f, fl) : f \in BOOLEAN,
                        fl \in { x \in SUBSET FlipMinutes : Cardinality(x) <= MaxFlips } }

\* (int32_t)(deg * 1000000.0 + (deg >= 0 ? 0.5 : -0.5)): round half away
\* from zero, the cast truncating toward zero.
DegToE6(deg_e7) == Int32(CDiv(deg_e7 + (IF deg_e7 >= 0 THEN 5 ELSE -5), 10))

PatternAbove(s, minute) ==
  (s.first /\ Cardinality({ f \in s.flips : f <= minute }) % 2 = 0)
  \/ (~s.first /\ Cardinality({ f \in s.flips : f <= minute }) % 2 = 1)

\* (sun_sin_alt_scaled(N, minute, lat_e6, lon_e6, tz_offset_min) > sin_h0)
SampleAbove(s, minute) ==
  IF s.kind = "geo"
  THEN sun_sin_alt_scaled(day_of_year(s.year, s.month, s.day), minute,
                          DegToE6(s.lat_e7), DegToE6(s.lon_e7), s.tz) > sin_h0
  ELSE PatternAbove(s, minute)

(***************************************************************************)
(* calc_sunrise_sunset_local.                                              *)
(***************************************************************************)
CoarseStep == 10

\* the step of the refined scan the 10-minute scan is compared with
FineStep == 1

BisectIterations == 10

LastMinute == 1439

\* SunTimesInit with the valid flag left at its zero initialisation
SunTimesNoValid ==
  [valid |-> FALSE, always_day |-> FALSE, always_night |-> FALSE,
   sunrise_min |-> 0, sunset_min |-> 0]

\* SunTimes out = { .valid = true, ... }
SunTimesInit ==
  [valid |-> TRUE, always_day |-> FALSE, always_night |-> FALSE,
   sunrise_min |-> 0, sunset_min |-> 0]

\* FreshLocals for locals declared static: they keep their last values
StaleLocals == [rise |-> rise, set |-> set, above_count |-> above_count]

\* the locals a call starts from: rise, set, above_count
FreshLocals == [rise |-> -1, set |-> -1, above_count |-> 0]

\* BisectContinues with <= for <: one iteration more
BisectRunsOver(iv) == iv <= BisectIterations

\* the condition of the bisection loop: i < 10
BisectContinues(iv) == iv < BisectIterations

\* LoopContinues with < for <=: the scan stops one sample early
LoopStopsEarly(mv) == mv < 1440

\* the condition of the coarse loop: m <= 1440
LoopContinues(mv) == mv <= 1440

\* const int mm = (m == 1440) ? 1439 : m;
SampleMinute(mv) == IF mv = 1440 THEN LastMinute ELSE mv

\* ReportedMinute without the default and the clamp
ReportedMinuteRaw(v) == v

\* ReportedMinute with the clamp's upper bound one minute too low
ReportedMinuteBelowLast(v) ==
  clamp_i32(IF v < 0 THEN 0 ELSE v, 0, LastMinute - 1)

\* if (rise < 0) rise = 0; ...; clamp_i32(rise, 0, 1439)
ReportedMinute(v) == clamp_i32(IF v < 0 THEN 0 ELSE v, 0, LastMinute)

\* MostlyAbove with the comparison inverted
MostlyAboveInverted(count, st) == count < CDiv(CDiv(1440, st), 2)

\* above_count > samples / 2, with samples = 1440 / step
MostlyAbove(count, st) == count > CDiv(CDiv(1440, st), 2)

\* PolarResult with the else dropped: always_night is set on both paths
PolarResultNoElse(o, count, st) ==
  IF MostlyAbove(count, st) THEN [o EXCEPT !.always_day = TRUE, !.always_night = TRUE]
  ELSE [o EXCEPT !.always_night = TRUE]

\* if (above_count > samples / 2) out.always_day = true; else out.always_night = true;
PolarResult(o, count, st) ==
  IF MostlyAbove(count, st) THEN [o EXCEPT !.always_day = TRUE]
  ELSE [o EXCEPT !.always_night = TRUE]

\* NoCrossing with || for &&
NoCrossingEither(r, s) == r < 0 \/ s < 0

\* rise < 0 && set < 0
NoCrossing(r, s) == r < 0 /\ s < 0

\* Entry of the call with arguments s and coarse step st, up to the loop.
Enter(s, st) ==
  \E a0 \in {SampleAbove(s, 0)} :
      /\ sky' = s
      /\ out' = SunTimesInit
      /\ rise' = FreshLocals.rise
      /\ set' = FreshLocals.set
      /\ above_count' = FreshLocals.above_count + (IF a0 THEN 1 ELSE 0)
      /\ prev_above' = a0
      /\ above' = a0
      /\ step' = st
      /\ m' = st
      /\ lo' = 0 /\ hi' = 0 /\ i' = 0
      /\ coarse_evals' = 1
      /\ bisections' = 0
      /\ bisect_evals' = 0
      /\ calls' = calls + 1
      /\ pc' = "loop"

SkiesOf(u) ==
  CASE u = "pattern" -> PatternSkies
    [] u = "sun" -> SunSkies
    [] u = "step" -> StepSkies
    [] u = "repeat" -> RepeatSkies
    [] u = "countdown" -> PatternSkies
    [] OTHER -> {}

\* the first call of a run
Call ==
  /\ pc = "idle"
  /\ \E s \in SkiesOf(universe) : Enter(s, CoarseStep)
  /\ UNCHANGED <<universe, memo, ref, tm_static, caller, last, thr, calc, draw>>

\* One iteration of the coarse scan without a change of state: lines 158-162, 180.
CoarseSame ==
  /\ pc = "loop" /\ LoopContinues(m)
  /\ \E ab \in {SampleAbove(sky, SampleMinute(m))} :
         /\ ab = prev_above
         /\ above' = ab
         /\ above_count' = above_count + (IF ab THEN 1 ELSE 0)
         /\ prev_above' = ab
  /\ m' = m + step
  /\ coarse_evals' = coarse_evals + 1
  /\ UNCHANGED <<universe, pc, sky, step, out, rise, set, lo, hi, i,
                 bisections, bisect_evals, calls, memo, ref, tm_static, caller, last, thr, calc, draw>>

\* One iteration of the coarse scan that finds a change: lines 158-166.
CoarseChange ==
  /\ pc = "loop" /\ LoopContinues(m)
  /\ \E ab \in {SampleAbove(sky, SampleMinute(m))} :
         /\ ab # prev_above
         /\ above' = ab
         /\ above_count' = above_count + (IF ab THEN 1 ELSE 0)
  /\ lo' = m - step
  /\ hi' = m
  /\ i' = 0
  /\ pc' = "bisect"
  /\ coarse_evals' = coarse_evals + 1
  /\ bisections' = bisections + 1
  /\ UNCHANGED bisect_evals
  /\ UNCHANGED <<universe, sky, step, out, rise, set, prev_above, m,
                 calls, memo, ref, tm_static, caller, last, thr, calc, draw>>

\* a probe one minute after the lower end instead of at the middle
MidpointNextMinute(l, h) == l + 1

\* const int mid = (lo + hi) / 2;
Midpoint(l, h) == CDiv(l + h, 2)

\* One iteration of the bisection: lines 167-172.
BisectStep ==
  /\ pc = "bisect" /\ BisectContinues(i)
  /\ \E mid \in {Midpoint(lo, hi)} :
       IF SampleAbove(sky, mid) = prev_above
       THEN lo' = mid /\ hi' = hi
       ELSE hi' = mid /\ lo' = lo
  /\ i' = i + 1
  /\ bisect_evals' = bisect_evals + 1
  /\ UNCHANGED <<universe, pc, sky, step, out, rise, set, above_count,
                 prev_above, above, m, coarse_evals, bisections, calls, memo, ref, tm_static, caller, last, thr, calc, draw>>

\* KeepFirst without the guard: the last crossing wins
KeepLast(old, found) == found

\* if (rise < 0) rise = hi;
KeepFirst(old, found) == IF old < 0 THEN found ELSE old

\* the lower end of the final bracket taken as the crossing
FoundMinuteLow(l, h) == l

\* rise = hi; set = hi: the upper end of the final bracket is the crossing
FoundMinute(l, h) == h

\* After the bisection: lines 173-180.
BisectEnd ==
  /\ pc = "bisect" /\ ~BisectContinues(i)
  /\ IF ~prev_above /\ above
     THEN rise' = KeepFirst(rise, FoundMinute(lo, hi)) /\ set' = set
     ELSE IF prev_above /\ ~above
     THEN set' = KeepFirst(set, FoundMinute(lo, hi)) /\ rise' = rise
     ELSE UNCHANGED <<rise, set>>
  /\ prev_above' = above
  /\ m' = m + step
  /\ pc' = "loop"
  /\ UNCHANGED <<universe, sky, step, out, above_count, above, lo, hi, i,
                 coarse_evals, bisections, bisect_evals, calls, memo, ref, tm_static, caller, last, thr, calc, draw>>

\* No crossing found in the whole day: lines 183-188.
ReturnPolar ==
  /\ pc = "loop" /\ ~LoopContinues(m)
  /\ NoCrossing(rise, set)
  /\ out' = PolarResult(out, above_count, step)
  /\ pc' = "done"
  /\ memo' = memo \cup {<<sky, step, out'>>}
  /\ UNCHANGED <<universe, sky, step, rise, set, above_count, prev_above,
                 above, m, lo, hi, i, coarse_evals, bisections, bisect_evals, calls, ref, tm_static, caller, last, thr, calc, draw>>

\* A crossing was found: lines 190-194.
ReturnTimes ==
  /\ pc = "loop" /\ ~LoopContinues(m)
  /\ ~NoCrossing(rise, set)
  /\ rise' = IF rise < 0 THEN 0 ELSE rise
  /\ set' = IF set < 0 THEN 0 ELSE set
  /\ out' = [out EXCEPT !.sunrise_min = ReportedMinute(rise),
                        !.sunset_min = ReportedMinute(set)]
  /\ pc' = "done"
  /\ memo' = memo \cup {<<sky, step, out'>>}
  /\ UNCHANGED <<universe, sky, step, above_count, prev_above,
                 above, m, lo, hi, i, coarse_evals, bisections, bisect_evals, calls, ref, tm_static, caller, last, thr, calc, draw>>

InitIn(u) ==
  /\ universe = u
  /\ pc = "idle"
  /\ sky = NoSky
  /\ step = CoarseStep
  /\ out = SunTimesInit
  /\ rise = -1 /\ set = -1
  /\ above_count = 0
  /\ prev_above = FALSE /\ above = FALSE
  /\ m = 0 /\ lo = 0 /\ hi = 0 /\ i = 0
  /\ coarse_evals = 0 /\ bisections = 0 /\ bisect_evals = 0
  /\ calls = 0
  /\ memo = {}
  /\ ref = SunTimesInit
  /\ tm_static = TmZero
  /\ caller = CallerInit
  /\ last = NoHelperCall
  /\ thr = ThreadsOf(u)
  /\ calc = NoCalc
  /\ draw = DrawStart

Init == InitIn("pattern")

Next ==
  \/ Call
  \/ CoarseSame
  \/ CoarseChange
  \/ BisectStep
  \/ BisectEnd
  \/ ReturnPolar
  \/ ReturnTimes

\* one call of the solver on an arbitrary above/below pattern
Spec == Init /\ [][Next]_vars

\* The same call, run to its end: the function is straight-line code and
\* two counted loops, nothing suspends it, so a statement that can run does.
SpecFair == Init /\ [][Next]_vars /\ WF_vars(Next)

\* The same call once more with a coarse step of 1 minute; the result of the
\* 10-minute scan is kept in ref.
RerunFine ==
  /\ pc = "done" /\ step = CoarseStep
  /\ ref' = out
  /\ Enter(sky, FineStep)
  /\ UNCHANGED <<universe, memo, tm_static, caller, last, thr, calc, draw>>

NextStep == Next \/ RerunFine

InitStep == InitIn("step")

\* one call with the 10-minute step, then the same call with a 1-minute step
SpecStep == InitStep /\ [][NextStep]_vars

\* a call of ymd_for_loc_now between two calls of the solver
YmdCall ==
  /\ pc \in {"idle", "done"} /\ calls < CallsOf(universe)
  /\ \E loc \in LocsOf(universe), now_utc \in ClocksOf(universe),
        gm_null \in BOOLEAN, has \in PointersOf(universe) :
       /\ ymd_for_loc_now(loc, has[1], has[2], has[3], now_utc, gm_null)
       /\ last' = [fn |-> "ymd", loc |-> loc, now_utc |-> now_utc,
                   gm_null |-> gm_null, has_y |-> has[1], has_m |-> has[2],
                   has_d |-> has[3], has_minutes |-> FALSE, before |-> caller]
  /\ calls' = calls + 1
  /\ UNCHANGED <<universe, pc, sky, step, out, rise, set, above_count, prev_above,
                 above, m, lo, hi, i, coarse_evals, bisections, bisect_evals, memo, ref, thr, calc, draw>>

\* a call of get_location_local_tm between two calls of the solver
LocalTmCall ==
  /\ pc \in {"idle", "done"} /\ calls < CallsOf(universe)
  /\ \E loc \in LocsOf(universe), now_utc \in ClocksOf(universe),
        gm_null \in BOOLEAN, has \in PointersOf(universe) :
       /\ get_location_local_tm(loc, has[4], now_utc, gm_null)
       /\ last' = [fn |-> "tm", loc |-> loc, now_utc |-> now_utc,
                   gm_null |-> gm_null, has_y |-> FALSE, has_m |-> FALSE,
                   has_d |-> FALSE, has_minutes |-> has[4], before |-> caller]
  /\ calls' = calls + 1
  /\ UNCHANGED <<universe, pc, sky, step, out, rise, set, above_count, prev_above,
                 above, m, lo, hi, i, coarse_evals, bisections, bisect_evals, memo, ref, thr, calc, draw>>

\* a further call of the solver, with any arguments
Recall ==
  /\ pc = "done" /\ calls < MaxCalls
  /\ \E s \in SkiesOf(universe) : Enter(s, CoarseStep)
  /\ UNCHANGED <<universe, memo, ref, tm_static, caller, last, thr, calc, draw>>

NextRepeat == Next \/ Recall \/ YmdCall \/ LocalTmCall

InitRepeat == InitIn("repeat")

\* a run of calls of the solver and of the local-time helpers, one at a time
SpecRepeat == InitRepeat /\ [][NextRepeat]_vars

(***************************************************************************)
(* The helpers called from concurrent threads, one action per statement:   *)
(* gmtime fills the platform's one struct tm and returns its address, and  *)
(* the statements after the call read through that address.                *)
(***************************************************************************)
OnThread(t, r) ==
  /\ thr' = [thr EXCEPT ![t] = r]
  /\ UNCHANGED <<universe, pc, sky, step, out, rise, set, above_count,
                 prev_above, above, m, lo, hi, i, coarse_evals, bisections, bisect_evals,
                 calls, memo, ref, caller, last, calc, draw>>

\* thread t enters ymd_for_loc_now or get_location_local_tm
ThreadCall(t) ==
  /\ universe = "threads" /\ thr[t].pc = "idle"
  /\ \E fn \in {"ymd", "tm"}, loc \in ThreadLocs, now_utc \in ClockValues,
        gm_null \in BOOLEAN :
       OnThread(t, [thr[t] EXCEPT !.pc = "check", !.fn = fn, !.loc = loc,
                                  !.now_utc = now_utc, !.gm_null = gm_null])
  /\ UNCHANGED tm_static

\* if (!loc || !loc->valid) return 0;  lines 42 and 57
ThreadCheck(t) ==
  /\ universe = "threads" /\ thr[t].pc = "check"
  /\ IF BadLoc(thr[t].loc)
     THEN OnThread(t, [thr[t] EXCEPT !.pc = "done", !.ret = 0])
     ELSE OnThread(t, [thr[t] EXCEPT !.pc = "gmtime"])
  /\ UNCHANGED tm_static

\* tm_p = gmtime(&shifted); if (!tm_p) return 0;  lines 43-46 and 59-62
ThreadGmtime(t) ==
  /\ universe = "threads" /\ thr[t].pc = "gmtime"
  /\ IF thr[t].gm_null
     THEN /\ OnThread(t, [thr[t] EXCEPT !.pc = "done", !.ret = 0])
          /\ UNCHANGED tm_static
     ELSE /\ tm_static' = GmTime(Shifted(thr[t].now_utc, thr[t].loc))
          /\ OnThread(t, [thr[t] EXCEPT
                            !.pc = IF thr[t].fn = "ymd" THEN "year" ELSE "copy"])

\* const int y = tm_p->tm_year + 1900;  line 47
ThreadReadYear(t) ==
  /\ universe = "threads" /\ thr[t].pc = "year"
  /\ OnThread(t, [thr[t] EXCEPT !.pc = "month", !.y = tm_static.tm_year + 1900])
  /\ UNCHANGED tm_static

\* const int m = tm_p->tm_mon + 1;  line 48
ThreadReadMonth(t) ==
  /\ universe = "threads" /\ thr[t].pc = "month"
  /\ OnThread(t, [thr[t] EXCEPT !.pc = "day", !.m = TmMonth(tm_static)])
  /\ UNCHANGED tm_static

\* const int d = tm_p->tm_mday; ...; return y * 10000 + m * 100 + d;
\* lines 49-53
ThreadReadDay(t) ==
  /\ universe = "threads" /\ thr[t].pc = "day"
  /\ OnThread(t, [thr[t] EXCEPT
                    !.pc = "done", !.d = tm_static.tm_mday,
                    !.ret = PackYmd(thr[t].y, thr[t].m, tm_static.tm_mday)])
  /\ UNCHANGED tm_static

\* *out_tm = *tm_loc;  line 64
ThreadCopyTm(t) ==
  /\ universe = "threads" /\ thr[t].pc = "copy"
  /\ OnThread(t, [thr[t] EXCEPT !.pc = "minutes", !.tm = tm_static])
  /\ UNCHANGED tm_static

\* *out_minutes_since_midnight = tm_loc->tm_hour * 60 + tm_loc->tm_min;
\* return true;  lines 65-68
ThreadReadMinutes(t) ==
  /\ universe = "threads" /\ thr[t].pc = "minutes"
  /\ OnThread(t, [thr[t] EXCEPT
                    !.pc = "done", !.ret = 1,
                    !.minutes = tm_static.tm_hour * 60 + tm_static.tm_min])
  /\ UNCHANGED tm_static

NextThreads ==
  \E t \in Threads :
    \/ ThreadCall(t)
    \/ ThreadCheck(t)
    \/ ThreadGmtime(t)
    \/ ThreadReadYear(t)
    \/ ThreadReadMonth(t)
    \/ ThreadReadDay(t)
    \/ ThreadCopyTm(t)
    \/ ThreadReadMinutes(t)

InitThreads == InitIn("threads")

\* two threads, each calling one of the helpers once, in any interleaving
SpecThreads == InitThreads /\ [][NextThreads]_vars

(***************************************************************************)
(* Evaluations of the pure functions on their own.                         *)
(***************************************************************************)
\* the step of an evaluation: only calc changes
Evaluate(c) ==
  /\ calc' = c
  /\ UNCHANGED <<universe, pc, sky, step, out, rise, set, above_count,
                 prev_above, above, m, lo, hi, i, coarse_evals, bisections,
                 bisect_evals, calls, memo, ref, tm_static, caller, last, thr,
                 draw>>

\* the years of the dates day_of_year is evaluated on: leap and common
\* years, century years that are and are not leap years
DateYears == {1900, 2000, 2023, 2024, 2100}

\* the length of month mo of year y in the Gregorian calendar
MonthLength(y, mo) ==
  IF mo = 2
  THEN (IF (y % 4 = 0 /\ y % 100 # 0) \/ y % 400 = 0 THEN 29 ELSE 28)
  ELSE IF mo \in {4, 6, 9, 11} THEN 30 ELSE 31

\* the record of one evaluation of day_of_year; prev is the result for the
\* day before when the evaluation follows it, 0 otherwise
DoyCalc(y, mo, d, prev) ==
  [fn |-> "day_of_year", year |-> y, month |-> mo, day |-> d,
   doy |-> day_of_year(y, mo, d), prev |-> prev]

\* day_of_year(year, month, day) on January 1 of a year
DayOfYearFirst ==
  /\ universe = "dates" /\ calc.fn = "none"
  /\ \E y \in DateYears : Evaluate(DoyCalc(y, 1, 1, 0))

\* day_of_year on the date after the latest one, within the year
DayOfYearNext ==
  /\ universe = "dates" /\ calc.fn = "day_of_year"
  /\ IF calc.day < MonthLength(calc.year, calc.month)
     THEN Evaluate(DoyCalc(calc.year, calc.month, calc.day + 1, calc.doy))
     ELSE /\ calc.month < 12
          /\ Evaluate(DoyCalc(calc.year, calc.month + 1, 1, calc.doy))

NextDates == DayOfYearFirst \/ DayOfYearNext

\* the arguments of the evaluations of the true solar time: minutes of the
\* day, values of eqtime_sec, longitudes in 1e-6 degree (multiples of 1/80
\* degree, so that 240 * longitude is a whole number of seconds), offsets
SolarMinutes == {0, 1, 720, 1439}

SolarEqTimes ==
  {-2000000000, -1230478, -86401, -86400, -61, -1, 0, 59, 990, 86400, 1230478,
   2000000000}

SolarLons == {-180000000, -74012500, 0, 12500, 179987500}

SolarOffsets == {-840, -300, 0, 330, 840}

\* true solar times the hour angle is evaluated on directly
SolarTimes == {0, 1, 168, 169, 43199, 43200, 43201, 86231, 86399}

\* lines 110-117 on given values of minute_of_day, eqtime_sec, lon_e6 and
\* tz_offset_min
SolarTimeCall ==
  /\ universe = "solar" /\ calc.fn = "none"
  /\ \E mn \in SolarMinutes, eq \in SolarEqTimes, lon \in SolarLons,
        tz \in SolarOffsets :
       \E raw \in {RawSolarTime(mn, eq, lon, tz)} :
         \E tst \in {ReduceDay(raw)} :
           Evaluate([fn |-> "tst", minute |-> mn, eqtime_sec |-> eq,
                     lon_e6 |-> lon, tz |-> tz, raw |-> raw, tst |-> tst,
                     ha |-> HourAngle(tst)])

\* line 117 on a given reduced true solar time
HourAngleCall ==
  /\ universe = "solar" /\ calc.fn = "none"
  /\ \E tst \in SolarTimes :
       Evaluate([fn |-> "ha", minute |-> 0, eqtime_sec |-> 0, lon_e6 |-> 0,
                 tz |-> 0, raw |-> tst, tst |-> tst, ha |-> HourAngle(tst)])

NextSolar == SolarTimeCall \/ HourAngleCall

\* The values sun_sin_alt_scaled narrows to 32 bits, before and after the
\* narrowing, for the day of the year N, the minute mn, the coordinates in
\* 1e-6 degree, the offset tz, and table outputs t = <<sin1, cos1, sin2,
\* cos2, sin3, cos3>>; the sines and cosines of the last step are t too.
NarrowingPoints(N, mn, lat_e6, lon_e6, tz, t) ==
  LET gamma_w  == MulDiv64(TRIG_MAX_ANGLE, N - 1, 365)
                  + MulDiv64(TRIG_MAX_ANGLE, mn - 720, 365 * 1440)
      gamma    == Int32(gamma_w)
      eqtime_w == MulDiv64(13750800, EqTimeSum(t[1], t[2], t[3], t[4]), 1000000)
      eqtime   == Int32(eqtime_w)
      decl_w   == DeclE6(t[1], t[2], t[3], t[4], t[5], t[6])
      decl     == Int32(decl_w)
      rad_w    == MulDiv64(TRIG_MAX_ANGLE, decl, 6283185)
      tst      == ReduceDay(RawSolarTime(mn, eqtime, lon_e6, tz))
      ha_w     == MulDiv64(TRIG_MAX_ANGLE, tst - 43200, 86400)
      lat_w    == MulDiv64(TRIG_MAX_ANGLE, lat_e6, 360 * 1000000)
      s_w      == MulDiv64(t[1], t[3], TRIG_MAX_RATIO)
                  + MulDiv64(MulDiv64(t[2], t[4], TRIG_MAX_RATIO), t[5],
                             TRIG_MAX_RATIO)
  IN  [fn |-> "narrow",
       wide |-> <<gamma_w, gamma * 2, gamma * 3, eqtime_w, decl_w, rad_w,
                  ha_w, lat_w, s_w>>,
       narrow |-> <<YearAngle(N, mn), Int32(gamma * 2), Int32(gamma * 3),
                    eqtime, decl, rad_e6_to_trig(decl), HourAngle(tst),
                    deg_e6_to_trig(lat_e6),
                    Int32(clamp_i32(s_w, -INT32_MAX - 1, INT32_MAX))>>]

\* table outputs of either sign and the largest magnitude
TrigExtremes == {-TRIG_MAX_RATIO, TRIG_MAX_RATIO}

\* sun_sin_alt_scaled at the ends of the ranges of its arguments
NarrowCall ==
  /\ universe = "narrow" /\ calc.fn = "none"
  /\ \E N \in {1, 366}, mn \in {0, 1439}, lat_e6 \in {-90000000, 90000000},
        lon_e6 \in {-180000000, 180000000}, tz \in {-840, 840},
        t \in [1..6 -> TrigExtremes] :
       \E c \in {NarrowingPoints(N, mn, lat_e6, lon_e6, tz, t)} : Evaluate(c)

NextNarrow == NarrowCall

InitNarrow == InitIn("narrow")

\* evaluations of sun_sin_alt_scaled at the ends of its arguments' ranges
SpecNarrow == InitNarrow /\ [][NextNarrow]_vars

\* one more call into yes_draw.c, leaving its state as nd and the state of
\* yes_astro.c as it is
DrawOp(nd) ==
  /\ draw' = [nd EXCEPT !.ops = draw.ops + 1]
  /\ UNCHANGED <<universe, pc, sky, step, out, rise, set, above_count,
                 prev_above, above, m, lo, hi, i, coarse_evals, bisections,
                 bisect_evals, calls, memo, ref, tm_static, caller, last, thr,
                 calc>>

InitCall ==
  /\ universe = "hand" /\ draw.ops < MaxDrawOps
  /\ \E nd \in yes_draw_init(draw) : DrawOp(nd)

DeinitCall ==
  /\ universe = "hand" /\ draw.ops < MaxDrawOps
  /\ DrawOp(yes_draw_deinit(draw))

\* yes_draw_face with a hand too short to be drawn or long enough
FaceCall ==
  /\ universe = "hand" /\ draw.ops < MaxDrawOps
  /\ \E hand_len \in {16, 17} : DrawOp(DrawHand(draw, hand_len))

NextHand == InitCall \/ DeinitCall \/ FaceCall

\* yes_draw_init, yes_draw_deinit and yes_draw_face called in any order
SpecHand == InitIn("hand") /\ [][NextHand]_vars

\* one slot of yes_draw_corners: the pick at clock value now, the first or
\* the last second of one of SlotPeriods consecutive 5-second periods, and the
\* picks at the starts of the following periods, as many as the table has
\* entries
SlotCall ==
  /\ universe = "slots" /\ calc.fn = "none"
  /\ \E t \in DOMAIN SlotTables, p \in 0..(SlotPeriods - 1), r \in {0, 4} :
       \E now \in {1704083400 + 5 * p + r},
          av \in [1..Len(SlotTables[t]) -> BOOLEAN] :
         Evaluate([fn |-> "slot", table |-> t, av |-> av, now |-> now,
                   res |-> slot_pick_index(SlotTables[t], av, now),
                   later |-> [j \in 1..Len(SlotTables[t]) |->
                                slot_pick_index(SlotTables[t], av,
                                                (now - (now % 5)) + 5 * j)]])

\* calls of slot_pick_index on the three tables of yes_draw_corners
SpecSlots == InitIn("slots") /\ [][SlotCall]_vars

\* tl_draw_steps after the clock has advanced by dt seconds, the health
\* service answering -1 (not accessible) or a sum of steps
StepsCall ==
  /\ universe = "steps" /\ draw.ops < MaxStepsCalls
  /\ \E dt \in {0, 1, 59, 60}, health \in {-1, 9999, 12345} :
       \* the health service is asked only when the cache is stale
       /\ CacheStale(draw.steps_cached_at, draw.clock + dt)
            \/ health = draw.steps_cached
       /\ DrawOp(tl_draw_steps(draw, draw.clock + dt, health))

\* tl_draw_steps called again and again while the clock advances
SpecSteps == InitIn("steps") /\ [][StepsCall]_vars

\* the local minutes at which the countdown is drawn: around the minutes at
\* which the patterns change, the ends of the day, and -1 for a local time
\* that could not be computed
CountdownMinutes ==
  {-1, 0, 1, 2, 3, 4, 5, 9, 10, 100, 354, 355, 356, 360, 720, 1430, 1431,
   1432, 1438, 1439}

\* br_draw_sun_cd on the SunTimes the solver has just returned
SunCdCall ==
  /\ universe = "countdown" /\ pc = "done" /\ calc.fn = "none"
  /\ \E now_min \in CountdownMinutes :
       \E r \in {br_draw_sun_cd(out, now_min)} :
         Evaluate([fn |-> "suncd", now_min |-> now_min, lab |-> r.lab,
                   dmin |-> r.dmin, text |-> r.text])

NextCountdown == Next \/ SunCdCall

\* one call of the solver on an above/below pattern, its result drawn by
\* br_draw_sun_cd
SpecCountdown == InitIn("countdown") /\ [][NextCountdown]_vars

\* gamma and eqtime_sec of sun_sin_alt_scaled for a day of the year and a
\* minute of the day
EqTimeCall ==
  /\ universe = "eqtime" /\ calc.fn = "none"
  /\ \E N \in 1..366, mn \in {0, 360, 720, 1080, 1439} :
       \E g \in {YearAngle(N, mn)} :
         Evaluate([fn |-> "eqtime", N |-> N, minute |-> mn, gamma |-> g,
                   res |-> EqTimeSec(g)])

\* evaluations of the equation-of-time term of sun_sin_alt_scaled
SpecEqTime == InitIn("eqtime") /\ [][EqTimeCall]_vars

\* the arguments of the angle adapters, of both signs: the powers of two and
\* their predecessors, the first values whose result is not 0 (5494 and 96)
\* and their predecessors, whole turns, and the largest int32_t
AdapterArgs ==
  { sg * a : sg \in {-1, 1},
             a \in { 2^k : k \in 0..30 } \cup { 2^k - 1 : k \in 0..30 }
                     \cup {INT32_MAX, 5493, 5494, 95, 96, 833000, 6283185,
                           6283186, 90000000, 180000000, 360000000,
                           359999999, 703125, 703124} }

\* deg_e6_to_trig on d and on -d
DegCall ==
  /\ universe = "adapters" /\ calc.fn = "none"
  /\ \E d \in AdapterArgs :
       Evaluate([fn |-> "deg", arg |-> d, res |-> deg_e6_to_trig(d),
                 neg |-> deg_e6_to_trig(-d)])

\* rad_e6_to_trig on d and on -d
RadCall ==
  /\ universe = "adapters" /\ calc.fn = "none"
  /\ \E d \in AdapterArgs :
       Evaluate([fn |-> "rad", arg |-> d, res |-> rad_e6_to_trig(d),
                 neg |-> rad_e6_to_trig(-d)])

NextAdapters == DegCall \/ RadCall

\* evaluations of the two angle adapters
SpecAdapters == InitIn("adapters") /\ [][NextAdapters]_vars

InitSolar == InitIn("solar")

\* evaluations of the true solar time and the hour angle
SpecSolar == InitSolar /\ [][NextSolar]_vars

InitDates == InitIn("dates")

\* day_of_year on every date of a year, in order
SpecDates == InitDates /\ [][NextDates]_vars

NextClock == YmdCall \/ LocalTmCall

InitClock == InitIn("clock")

\* a run of calls of the local-time helpers at any instants and locations
SpecClock == InitClock /\ [][NextClock]_vars

InitSun == InitIn("sun")

\* one call of the solver on a date and a location
SpecSun == InitSun /\ [][Next]_vars

(***************************************************************************)
(* What the day looks like at the coarse samples, read off the sky alone.  *)
(***************************************************************************)
Returned == pc = "done"

AnyAlways == out.always_day \/ out.always_night

\* the upper ends of the 10-minute brackets: 10, 20, ..., 1440
CoarseMarks == { CoarseStep * k : k \in 1..(1440 \div CoarseStep) }

\* the minutes of the coarse samples: 0, 10, ..., 1430, 1439
CoarseMinutes == {0} \cup { SampleMinute(mk) : mk \in CoarseMarks }

\* brackets whose lower sample is not above and whose upper sample is above
RiseBrackets(s) ==
  { mk \in CoarseMarks : /\ ~SampleAbove(s, mk - CoarseStep)
                         /\ SampleAbove(s, SampleMinute(mk)) }

\* brackets whose lower sample is above and whose upper sample is not
SetBrackets(s) ==
  { mk \in CoarseMarks : /\ SampleAbove(s, mk - CoarseStep)
                         /\ ~SampleAbove(s, SampleMinute(mk)) }

Earliest(S) == CHOOSE x \in S : \A y \in S : x <= y

\* the minutes of a bracket that can be reported: after the lower sample, up
\* to the upper one
InBracket(v, mk) == mk - CoarseStep < v /\ v <= SampleMinute(mk)

AboveSamples(s) == Cardinality({ mn \in CoarseMinutes : SampleAbove(s, mn) })

(***************************************************************************)
(* C1: the returned SunTimes never has always_day and always_night both    *)
(* true, and whenever either flag is true sunrise_min and sunset_min are   *)
(* still 0.                                                                *)
(***************************************************************************)
C1_FlagsExclusive ==
  Returned =>
    /\ ~(out.always_day /\ out.always_night)
    /\ (AnyAlways => out.sunrise_min = 0 /\ out.sunset_min = 0)

\* a call that returned always_day on a day that is not constant
C1_Witness == Returned /\ out.always_day /\ sky.flips # {}

(***************************************************************************)
(* C2: whenever both always flags are clear, the returned sunrise_min and  *)
(* sunset_min each lie in 0..1439.                                         *)
(***************************************************************************)
C2_MinutesInRange ==
  (Returned /\ ~AnyAlways) =>
    /\ out.sunrise_min \in 0..LastMinute
    /\ out.sunset_min \in 0..LastMinute

\* a sunrise found in the last minute of the day, the sunset not found
C2_Witness ==
  Returned /\ ~AnyAlways /\ out.sunrise_min = LastMinute /\ set = 0

(***************************************************************************)
(* C3: when no two consecutive coarse samples differ, the call returns     *)
(* exactly one always flag, always_day iff more than half of the 145       *)
(* samples are above, and the minutes stay 0.                              *)
(***************************************************************************)
C3_PolarDay ==
  (Returned /\ RiseBrackets(sky) = {} /\ SetBrackets(sky) = {}) =>
    /\ out.always_day = (2 * AboveSamples(sky) > Cardinality(CoarseMinutes))
    /\ out.always_night = ~out.always_day
    /\ out.sunrise_min = 0 /\ out.sunset_min = 0

\* a day whose only changes fall between two coarse samples, returned as day
C3_Witness ==
  /\ Returned /\ RiseBrackets(sky) = {} /\ SetBrackets(sky) = {}
  /\ sky.flips # {} /\ out.always_day /\ above_count = Cardinality(CoarseMinutes)

(***************************************************************************)
(* C4: the reported sunrise lies in the earliest bracket whose samples go  *)
(* from below to above, the reported sunset in the earliest bracket whose  *)
(* samples go from above to below: later crossings of the same direction   *)
(* do not change the reported value.                                       *)
(***************************************************************************)
C4_FirstCrossing ==
  Returned =>
    /\ (RiseBrackets(sky) # {} =>
          InBracket(out.sunrise_min, Earliest(RiseBrackets(sky))))
    /\ (SetBrackets(sky) # {} =>
          InBracket(out.sunset_min, Earliest(SetBrackets(sky))))

\* a day with two sunrises
C4_Witness ==
  Returned /\ Cardinality(RiseBrackets(sky)) >= 2 /\ bisections >= 3

(***************************************************************************)
(* C5: when exactly one direction of crossing was found, the side that was *)
(* not found is reported as minute 0 and both always flags stay false.     *)
(***************************************************************************)
C5_MissingSideZero ==
  Returned =>
    /\ (RiseBrackets(sky) # {} /\ SetBrackets(sky) = {} =>
          out.sunset_min = 0 /\ ~AnyAlways)
    /\ (SetBrackets(sky) # {} /\ RiseBrackets(sky) = {} =>
          out.sunrise_min = 0 /\ ~AnyAlways)

\* a day with a sunset and no sunrise
C5_Witness ==
  /\ Returned /\ SetBrackets(sky) # {} /\ RiseBrackets(sky) = {}
  /\ out.sunset_min > 0

\* tz_offset_min = 4 * longitude in degrees (the longitude in 1e-7 degree)
MatchingOffset(s) == s.lon_e7 = 2500000 * s.tz

(***************************************************************************)
(* C6: for every date and every location with |latitude| < 60 degrees and  *)
(* tz_offset_min = 4 * longitude, the call returns both always flags false *)
(* and 0 <= sunrise_min < sunset_min <= 1439.                              *)
(***************************************************************************)
MidLatitude(s) ==
  /\ s.kind = "geo"
  /\ Abs(s.lat_e7) < 600000000
  /\ MatchingOffset(s)

C6_MidLatitudeDay ==
  (Returned /\ MidLatitude(sky)) =>
    /\ ~AnyAlways
    /\ 0 <= out.sunrise_min /\ out.sunrise_min < out.sunset_min
    /\ out.sunset_min <= LastMinute

(***************************************************************************)
(* C7: at latitude 75 degrees north on June 21, at any longitude with a    *)
(* matching UTC offset, the call returns always_day = true and             *)
(* always_night = false.                                                   *)
(***************************************************************************)
ArcticSolstice(s) ==
  /\ s.kind = "geo"
  /\ s.lat_e7 = 750000000
  /\ s.month = 6 /\ s.day = 21
  /\ MatchingOffset(s)

C7_ArcticSolstice ==
  (Returned /\ ArcticSolstice(sky)) => (out.always_day /\ ~out.always_night)

\* the call for 75 N on June 21 of a leap year, west of Greenwich
C7_Witness ==
  Returned /\ ArcticSolstice(sky) /\ IsLeap(sky.year) /\ sky.lon_e7 < 0

(***************************************************************************)
(* C8: scanning the same date and location with a step of 1 minute instead *)
(* of 10 changes sunrise_min and sunset_min by less than 10 minutes each   *)
(* and changes neither always flag.                                        *)
(***************************************************************************)
C8_StepRefinement ==
  (Returned /\ step = FineStep) =>
    /\ Abs(out.sunrise_min - ref.sunrise_min) < 10
    /\ Abs(out.sunset_min - ref.sunset_min) < 10
    /\ out.always_day = ref.always_day
    /\ out.always_night = ref.always_night

(***************************************************************************)
(* C9: two calls of the solver with identical arguments return identical   *)
(* SunTimes values, whatever calls of the solver with other arguments or   *)
(* of the local-time helpers happen before or between them.                *)
(***************************************************************************)
C9_Deterministic ==
  \A e1 \in memo : \A e2 \in memo :
    (e1[1] = e2[1] /\ e1[2] = e2[2]) => e1[3] = e2[3]

\* the third call returned: its arguments are those of the first call, the
\* second call had other arguments and found a sunrise
C9_Witness ==
  /\ Returned /\ calls = MaxCalls
  /\ Cardinality(memo) = 2
  /\ \E e \in memo : e[1] # sky /\ e[3].sunrise_min > 0
  /\ \E e \in memo : e[1] = sky /\ e[3].always_night

\* a helper ran between two calls of the solver with the same arguments
C9_HelperBetween ==
  /\ Returned /\ calls = MaxCalls /\ Cardinality(memo) = 1
  /\ caller.ret = 1 /\ tm_static # TmZero

(***************************************************************************)
(* The latest helper call, read off its arguments alone.                   *)
(***************************************************************************)
\* the leap days of the years 1 .. y - 1
LeapsBefore(y) == (y - 1) \div 4 - (y - 1) \div 100 + (y - 1) \div 400

\* the number of the day y-mo-d, counted from 1970-01-01
DaysFromCivil(y, mo, d) ==
  365 * (y - 1970) + LeapsBefore(y) - LeapsBefore(1970) + day_of_year(y, mo, d) - 1

\* the instant of the latest helper call shifted by its location's offset
LastShifted == last.now_utc + last.loc.tz_offset_min * 60

\* the arguments of the latest helper call leave it no reason to fail
LastCanSucceed == ~last.loc.null /\ last.loc.valid /\ ~last.gm_null

(***************************************************************************)
(* C10: on every return path the result's valid flag is true.              *)
(***************************************************************************)
C10_AlwaysValid == Returned => out.valid

\* the polar return path
C10_Witness == Returned /\ out.always_night /\ out.valid

(***************************************************************************)
(* C11: a successful get_location_local_tm returns the minute of the day   *)
(* hour * 60 + minute of the instant UTC + tz_offset_min * 60 seconds, in  *)
(* 0..1439, with the calendar date of that shifted instant; for            *)
(* tz_offset_min = -300 at 2024-01-01T04:30:00Z that is 1410 on            *)
(* 2023-12-31.                                                             *)
(***************************************************************************)
C11_LocalMinutes ==
  (last.fn = "tm" /\ LastCanSucceed) =>
    /\ caller.ret = 1
    /\ caller.tm.tm_hour * 60 + caller.tm.tm_min = (LastShifted % 86400) \div 60
    /\ DaysFromCivil(caller.tm.tm_year + 1900, caller.tm.tm_mon + 1,
                     caller.tm.tm_mday) = LastShifted \div 86400
    /\ last.has_minutes =>
         /\ caller.minutes = (LastShifted % 86400) \div 60
         /\ caller.minutes \in 0..1439
    /\ (last.now_utc = 1704083400 /\ last.loc.tz_offset_min = -300
          /\ last.has_minutes) =>
         /\ caller.minutes = 1410
         /\ caller.tm.tm_year = 123 /\ caller.tm.tm_mon = 11
         /\ caller.tm.tm_mday = 31

\* the call at 2024-01-01T04:30:00Z with the offset -300
C11_Witness ==
  /\ last.fn = "tm" /\ LastCanSucceed /\ last.has_minutes
  /\ last.now_utc = 1704083400 /\ last.loc.tz_offset_min = -300
  /\ caller.minutes = 1410

(***************************************************************************)
(* C12: ymd_for_loc_now returns 0 and get_location_local_tm returns false  *)
(* exactly when the location pointer is null, the location's valid flag is *)
(* false or gmtime returns null.                                           *)
(***************************************************************************)
C12_FailureCases ==
  last.fn # "none" => ((caller.ret = 0) <=> ~LastCanSucceed)

\* ymd_for_loc_now failing on a valid location because gmtime returned null
C12_Witness ==
  /\ last.fn = "ymd" /\ ~last.loc.null /\ last.loc.valid /\ last.gm_null
  /\ caller.ret = 0

(***************************************************************************)
(* C13: a successful ymd_for_loc_now returns year * 10000 + month * 100 +  *)
(* day of the shifted date, month in 1..12 and day in 1..31, writes year,  *)
(* month and day through each non-null out pointer and through no other,   *)
(* and its result is not the failure value 0 (nor is the packed value of   *)
(* any date of a year >= 0).                                               *)
(***************************************************************************)
C13_PackedDate ==
  /\ (last.fn = "ymd" /\ LastCanSucceed) =>
       LET y == caller.ret \div 10000
           mo == (caller.ret % 10000) \div 100
           d == caller.ret % 100
       IN  /\ caller.ret # 0
           /\ mo \in 1..12 /\ d \in 1..31
           /\ DaysFromCivil(y, mo, d) = LastShifted \div 86400
           /\ caller.y = IF last.has_y THEN y ELSE last.before.y
           /\ caller.m = IF last.has_m THEN mo ELSE last.before.m
           /\ caller.d = IF last.has_d THEN d ELSE last.before.d
  /\ \A y \in {0, 1, 1969, 9999} : \A mo \in 1..12 : \A d \in 1..31 :
       PackYmd(y, mo, d) # 0

\* a call on the leap day with out_m null: the month cell is not written
C13_Witness ==
  /\ last.fn = "ymd" /\ LastCanSucceed
  /\ caller.ret = 20240229
  /\ last.has_y /\ ~last.has_m /\ caller.y = 2024 /\ caller.m = -1

(***************************************************************************)
(* C14: under every interleaving of two concurrent calls of the helpers    *)
(* with different locations, each call returns what it would return if it  *)
(* ran alone at that clock value.                                          *)
(***************************************************************************)
\* what a call with the arguments of thread record r returns when it runs alone
AloneTm(r) == GmTime(Shifted(r.now_utc, r.loc))

ThreadAsAlone(r) ==
  IF BadLoc(r.loc) \/ r.gm_null THEN r.ret = 0
  ELSE IF r.fn = "ymd"
  THEN /\ r.y = AloneTm(r).tm_year + 1900
       /\ r.m = AloneTm(r).tm_mon + 1
       /\ r.d = AloneTm(r).tm_mday
       /\ r.ret = r.y * 10000 + r.m * 100 + r.d
  ELSE /\ r.ret = 1
       /\ r.tm = AloneTm(r)
       /\ r.minutes = AloneTm(r).tm_hour * 60 + AloneTm(r).tm_min

C14_ThreadSafe ==
  universe = "threads" =>
    \A t \in Threads : \A u \in Threads :
      (thr[t].pc = "done" /\ thr[u].pc # "idle" /\ thr[t].loc # thr[u].loc)
        => ThreadAsAlone(thr[t])

(***************************************************************************)
(* C15: every call performs exactly 144 coarse evaluations of the          *)
(* solar-position function and runs at most 2 ten-iteration bisections,    *)
(* whatever the above/below pattern of the day's samples.                  *)
(***************************************************************************)
C15_Original ==
  Returned => (coarse_evals = 144 /\ bisections <= 2)

\* the changes between consecutive coarse samples of sky s
CoarseChanges(s) == Cardinality(RiseBrackets(s)) + Cardinality(SetBrackets(s))

(***************************************************************************)
(* C15, amended: every call performs exactly 145 coarse evaluations (the   *)
(* sample at minute 0 and the 144 samples of the loop) and runs one        *)
(* ten-iteration bisection for each change between consecutive coarse      *)
(* samples, which can be more than 2.                                      *)
(***************************************************************************)
C15_CoarseAndBisections ==
  Returned => (coarse_evals = 145 /\ bisections = CoarseChanges(sky))

\* a day with three changes between coarse samples: three bisections
C15_Witness == Returned /\ coarse_evals = 145 /\ bisections = 3

\* the evaluations of the solar-position function made so far by the call
TotalEvals == coarse_evals + bisect_evals

(***************************************************************************)
(* C16: a call evaluates the solar-position function at most 145 times in  *)
(* total, coarse samples and bisection midpoints together, and it always   *)
(* terminates.                                                             *)
(***************************************************************************)
C16_Original == [](TotalEvals <= 145) /\ <>Returned

(***************************************************************************)
(* C16, amended: a call evaluates the solar-position function 145 times at *)
(* the coarse samples and 10 times for each change between consecutive     *)
(* coarse samples, at most 145 + 10 * 144 = 1585 times in all, and it      *)
(* always terminates.                                                      *)
(***************************************************************************)
C16_EvaluationsAndTermination ==
  /\ [](Returned => TotalEvals = 145 + 10 * CoarseChanges(sky))
  /\ [](TotalEvals <= 145 + 10 * 144)
  /\ <>Returned

\* a day with a sunrise and a sunset: 165 evaluations
C16_Witness ==
  /\ Returned /\ TotalEvals = 165
  /\ out.sunrise_min > 0 /\ out.sunset_min > out.sunrise_min

(***************************************************************************)
(* C17: for every valid Gregorian date day_of_year returns the 1-based     *)
(* ordinal of the date in its year: 1 for January 1, 365 or 366 for        *)
(* December 31 by the leap rule 'divisible by 4 and not by 100, or         *)
(* divisible by 400', the leap day counted only after February, and one    *)
(* more than the result for the day before.                                *)
(***************************************************************************)
\* the dates of year y up to mo-d, counted one by one
OrdinalOf(y, mo, d) ==
  Cardinality({ md \in (1..12) \X (1..31) :
                  /\ md[2] <= MonthLength(y, md[1])
                  /\ (md[1] < mo \/ (md[1] = mo /\ md[2] <= d)) })

C17_DayOfYear ==
  calc.fn = "day_of_year" =>
    /\ calc.doy = OrdinalOf(calc.year, calc.month, calc.day)
    /\ (calc.month = 1 /\ calc.day = 1) => calc.doy = 1
    /\ (calc.month = 12 /\ calc.day = 31) =>
         calc.doy = (IF MonthLength(calc.year, 2) = 29 THEN 366 ELSE 365)
    /\ (calc.month <= 2) => calc.doy = (calc.month - 1) * 31 + calc.day
    /\ calc.prev # 0 => calc.doy = calc.prev + 1

\* December 31 of the century year 1900, which is not a leap year
C17_Witness ==
  /\ calc.fn = "day_of_year" /\ calc.year = 1900
  /\ calc.month = 12 /\ calc.day = 31 /\ calc.doy = 365 /\ calc.prev = 364

(***************************************************************************)
(* C18: for every minute, equation-of-time value, longitude and offset,    *)
(* also when the raw sum minute * 60 + eqtime + 240 * longitude -          *)
(* tz_offset_min * 60 is negative or more than a day, the reduced true     *)
(* solar time t satisfies 0 <= t < 86400 and is congruent to the raw sum   *)
(* modulo 86400.                                                           *)
(***************************************************************************)
\* the raw sum; lon_e6 is a multiple of 12500, 240 * lon_e6 / 1e6 is whole
RawSum(c) ==
  c.minute * 60 + c.eqtime_sec + 3 * (c.lon_e6 \div 12500) - c.tz * 60

C18_SolarTimeReduced ==
  calc.fn = "tst" =>
    /\ calc.tst >= 0 /\ calc.tst < 86400
    /\ (calc.tst - RawSum(calc)) % 86400 = 0

\* a negative raw sum that is not a multiple of a day
C18_Witness ==
  /\ calc.fn = "tst" /\ RawSum(calc) < -86400 /\ calc.tst > 0
  /\ calc.lon_e6 < 0 /\ calc.tz > 0

(***************************************************************************)
(* C19: the hour angle is turn * (solar time - 43200) / 86400 truncated    *)
(* toward zero; for every reduced solar time in 0..86399 it lies in        *)
(* -turn/2 .. turn/2 - 1, it is 0 at solar noon and -turn/2 at solar       *)
(* midnight.                                                               *)
(***************************************************************************)
\* 65536 / 86400 = 512 / 675
HourAngleOf(t) ==
  IF t >= 43200 THEN (512 * (t - 43200)) \div 675
  ELSE -((512 * (43200 - t)) \div 675)

C19_HourAngle ==
  calc.fn \in {"tst", "ha"} =>
    /\ calc.ha = HourAngleOf(calc.tst)
    /\ calc.ha >= -32768 /\ calc.ha < 32768
    /\ calc.tst = 43200 => calc.ha = 0
    /\ calc.tst = 0 => calc.ha = -32768

\* solar midnight
C19_Witness == calc.fn = "ha" /\ calc.tst = 0 /\ calc.ha = -32768

(***************************************************************************)
(* C20: for a day of the year in 1..366, a minute in 0..1439, a latitude   *)
(* in -90..90 degrees, a longitude in -180..180 degrees, an offset in      *)
(* -840..840 minutes and table outputs of magnitude at most                *)
(* TRIG_MAX_RATIO, no narrowing to 32 bits changes a value: gamma,         *)
(* 2 * gamma, 3 * gamma, eqtime_sec, the declination, the hour angle, the  *)
(* latitude angle and the final sum all fit in a signed 32-bit integer.    *)
(***************************************************************************)
C20_NarrowingExact ==
  calc.fn = "narrow" =>
    \A k \in 1..Len(calc.wide) :
      /\ calc.narrow[k] = calc.wide[k]
      /\ calc.wide[k] >= -INT32_MAX - 1 /\ calc.wide[k] <= INT32_MAX

\* the largest eqtime_sec: more than a million seconds, within 32 bits
C20_Witness ==
  /\ calc.fn = "narrow" /\ calc.wide[4] > 1000000
  /\ calc.wide[1] > 65536 /\ calc.wide[9] > TRIG_MAX_RATIO

(***************************************************************************)
(* C21: for every 32-bit value d, deg_e6_to_trig(d) is turn * d / (360 *   *)
(* 1e6) computed exactly and truncated toward zero, it fits in 32 bits and *)
(* deg_e6_to_trig(-d) = -deg_e6_to_trig(d); rad_e6_to_trig is the same     *)
(* with the divisor 6283185.                                               *)
(***************************************************************************)
\* 65536 * a / (360 * 1e6) rounded down, for a >= 0: the fraction is
\* 128 / 703125
DegQuotient(a) == 128 * (a \div 703125) + (128 * (a % 703125)) \div 703125

\* 65536 * a / 6283185 rounded down, for a >= 0, by long division in two
\* steps of 256
RadQuotient(a) ==
  LET c  == 6283185
      r1 == 256 * (a % c)
      r2 == 256 * (r1 % c)
  IN  65536 * (a \div c) + 256 * (r1 \div c) + r2 \div c

\* the quotient of magnitude Q(|d|) with the sign of d
TowardZero(d, Q(_)) == IF d >= 0 THEN Q(d) ELSE -Q(-d)

C21_AdaptersExact ==
  /\ calc.fn = "deg" =>
       /\ calc.res = TowardZero(calc.arg, DegQuotient)
       /\ calc.res >= -INT32_MAX - 1 /\ calc.res <= INT32_MAX
       /\ calc.neg = -calc.res
  /\ calc.fn = "rad" =>
       /\ calc.res = TowardZero(calc.arg, RadQuotient)
       /\ calc.res >= -INT32_MAX - 1 /\ calc.res <= INT32_MAX
       /\ calc.neg = -calc.res

\* a negative argument whose exact quotient is not whole
C21_Witness ==
  /\ calc.fn = "deg" /\ calc.arg = -833000 /\ calc.res = -151 /\ calc.neg = 151

(***************************************************************************)
(* C22: on each sign change the solver bisects the 10-minute bracket for   *)
(* 10 iterations over whole minutes, the midpoint rounded down: the width  *)
(* is 10 before the first iteration, at most 5, 3 and 2 after the first    *)
(* three and exactly 1 from the fourth on, the lower end always on the     *)
(* side of the previous coarse sample; the crossing is located to one      *)
(* minute when it is reported.                                             *)
(***************************************************************************)
\* the largest width of the bracket after n iterations
WidthAfter(n) == IF n = 0 THEN 10 ELSE IF n = 1 THEN 5 ELSE IF n = 2 THEN 3
                 ELSE IF n = 3 THEN 2 ELSE 1

C22_BisectToOneMinute ==
  pc = "bisect" =>
    /\ i \in 0..BisectIterations
    /\ hi - lo >= 1 /\ hi - lo <= WidthAfter(i)
    /\ i = 0 => hi - lo = CoarseStep
    /\ SampleAbove(sky, lo) = prev_above
    /\ ~BisectContinues(i) => i = BisectIterations /\ hi - lo = 1

\* the bracket 350..360 of a change at minute 355, after the last iteration
C22_Witness ==
  /\ pc = "bisect" /\ i = BisectIterations /\ lo = 354 /\ hi = 355

\* C22 as stated: after the ten iterations the bracket is about 0.01
\* minute wide (10 / 2^10)
C22_Original ==
  pc = "bisect" /\ ~BisectContinues(i) => 100 * (hi - lo) <= 1

(***************************************************************************)
(* C23: for any above/below function of the minute, a reported crossing    *)
(* that was found is a change from one minute to the next: above at        *)
(* sunrise_min and not above at sunrise_min - 1, not above at sunset_min   *)
(* and above at sunset_min - 1; also in the last bracket, whose upper      *)
(* sample is taken at minute 1439 while its bound is 1440.                 *)
(***************************************************************************)
\* a change between two coarse samples was seen in that direction
RiseFound == RiseBrackets(sky) # {}

SetFound == SetBrackets(sky) # {}

\* from not above at minute v - 1 to above at minute v
TurnsAboveAt(s, v) == v >= 1 /\ SampleAbove(s, v) /\ ~SampleAbove(s, v - 1)

\* from above at minute v - 1 to not above at minute v
TurnsBelowAt(s, v) == v >= 1 /\ ~SampleAbove(s, v) /\ SampleAbove(s, v - 1)

C23_RealTransition ==
  /\ pc = "loop" /\ rise >= 0 => TurnsAboveAt(sky, rise)
  /\ pc = "loop" /\ set >= 0 => TurnsBelowAt(sky, set)
  /\ Returned /\ sky.kind = "pattern" =>
       /\ RiseFound => TurnsAboveAt(sky, out.sunrise_min)
       /\ SetFound => TurnsBelowAt(sky, out.sunset_min)

\* a sunrise at the last minute of the day, found in the bracket 1430..1440,
\* after a sunset at minute 3
C23_Witness ==
  /\ Returned /\ RiseFound /\ SetFound
  /\ sky.first /\ sky.flips = {3, 1439}
  /\ out.sunset_min = 3 /\ out.sunrise_min = 1439

(***************************************************************************)
(* C24: a rise or set minute that was found lies in 1..1439 and in its     *)
(* bracket after the lower coarse sample (m - 10 < value <= m); so, with   *)
(* both always flags clear, a reported minute is 0 exactly when that side  *)
(* was not found, and the final clamp leaves a found value as it is.       *)
(***************************************************************************)
\* -1 (not found) or a minute of 1..1439
UnsetOrInDay(v) == v = -1 \/ v \in 1..LastMinute

C24_FoundInRange ==
  /\ pc = "bisect" /\ ~BisectContinues(i) =>
       /\ m - CoarseStep < FoundMinute(lo, hi) /\ FoundMinute(lo, hi) <= m
       /\ FoundMinute(lo, hi) \in 1..LastMinute
  /\ pc \in {"loop", "bisect"} => UnsetOrInDay(rise) /\ UnsetOrInDay(set)
  /\ Returned /\ ~AnyAlways =>
       /\ out.sunrise_min = 0 <=> ~RiseFound
       /\ out.sunset_min = 0 <=> ~SetFound
       /\ RiseFound => out.sunrise_min = rise /\ rise \in 1..LastMinute
       /\ SetFound => out.sunset_min = set /\ set \in 1..LastMinute

\* a sunrise found at the last minute of the day and no sunset
C24_Witness ==
  /\ Returned /\ ~AnyAlways /\ RiseFound /\ ~SetFound
  /\ out.sunrise_min = LastMinute /\ out.sunset_min = 0

(***************************************************************************)
(* C25: for every day of the year 1..366 and every minute 0..1439 the      *)
(* equation-of-time term eqtime_sec is at most 1200 seconds (20 minutes)   *)
(* in magnitude.                                                           *)
(***************************************************************************)
C25_EqTimeBounded ==
  calc.fn = "eqtime" => Abs(calc.res) <= 1200

(***************************************************************************)
(* C26: a call of ymd_for_loc_now or get_location_local_tm that fails      *)
(* writes to none of its output parameters: out_y, out_m, out_d, out_tm    *)
(* and out_minutes_since_midnight hold what they held before the call.     *)
(***************************************************************************)
\* the cells behind the output parameters of the two helpers
OutCells(c) == <<c.y, c.m, c.d, c.tm, c.minutes>>

C26_FailureWritesNothing ==
  last.fn # "none" /\ caller.ret = 0 => OutCells(caller) = OutCells(last.before)

\* get_location_local_tm failing after a call that succeeded: the cells
\* still hold the earlier call's time
C26_Witness ==
  /\ last.fn = "tm" /\ caller.ret = 0 /\ last.has_minutes
  /\ caller.minutes >= 0 /\ caller.tm # TmZero
  /\ OutCells(caller) = OutCells(last.before)

(***************************************************************************)
(* C27: after any sequence of yes_draw_init, yes_draw_deinit and           *)
(* yes_draw_face calls at most one hand path exists, and it is the one     *)
(* s_hand_path holds; a path is created only while none is held, every     *)
(* path is destroyed at most once, and a path is drawn only between its    *)
(* creation and its destruction.                                           *)
(***************************************************************************)
\* positions of the log with the event ev
LogPositions(ev) == { k \in 1..Len(draw.log) : draw.log[k] = ev }

\* the paths gpath_create has returned so far
PathsCreated == 1..(draw.next_path - 1)

\* path p is allocated just before position k of the log
LiveBefore(p, k) ==
  /\ \E c \in LogPositions(<<"create", p>>) : c < k
  /\ \A x \in LogPositions(<<"destroy", p>>) : x >= k

C27_OneHandPath ==
  /\ Cardinality(draw.live) <= 1
  /\ draw.live = IF draw.hand_path = NullPath THEN {} ELSE {draw.hand_path}
  /\ \A p \in PathsCreated :
       /\ Cardinality(LogPositions(<<"create", p>>)) = 1
       /\ Cardinality(LogPositions(<<"destroy", p>>)) <= 1
       /\ \A k \in LogPositions(<<"destroy", p>>) \cup LogPositions(<<"draw", p>>) :
            LiveBefore(p, k)
       /\ \A k \in LogPositions(<<"create", p>>) :
            \A q \in PathsCreated \ {p} : ~LiveBefore(q, k)
  /\ LogPositions(<<"draw", NullPath>>) = {}
  /\ LogPositions(<<"destroy", NullPath>>) = {}

\* a second path created and drawn after the first was destroyed
C27_Witness ==
  /\ draw.hand_path = 2 /\ draw.live = {2}
  /\ draw.log = <<<<"create", 1>>, <<"destroy", 1>>, <<"create", 2>>,
                  <<"draw", 2>>>>

(***************************************************************************)
(* C28: slot_pick_index returns the first available exclusive component if *)
(* there is one; otherwise it goes through the available components in     *)
(* list order, one per 5-second period, each picked once in every n        *)
(* consecutive periods; it returns -1 exactly when none is available and   *)
(* never returns a component that is not available.                        *)
(***************************************************************************)
\* 0-based indices of the available components of the call in calc
SlotAvailable == { k - 1 : k \in { j \in DOMAIN calc.av : calc.av[j] } }

SlotExclusive ==
  { x \in SlotAvailable : SlotTables[calc.table][x + 1].exclusive }

\* the available component after x in list order, the first after the last
NextAvailable(x) ==
  IF \E y \in SlotAvailable : y > x
  THEN CHOOSE y \in SlotAvailable : y > x /\ \A z \in SlotAvailable : z > x => y <= z
  ELSE CHOOSE y \in SlotAvailable : \A z \in SlotAvailable : y <= z

\* the picks of the period of the call and of the n - 1 periods after it
SlotRound ==
  {calc.res} \cup { calc.later[j] : j \in 1..(Cardinality(SlotAvailable) - 1) }

C28_SlotPick ==
  calc.fn = "slot" =>
    /\ (calc.res = -1) <=> (SlotAvailable = {})
    /\ calc.res # -1 => calc.res \in SlotAvailable
    /\ SlotExclusive # {} =>
         /\ calc.res \in SlotExclusive
         /\ \A x \in SlotExclusive : calc.res <= x
    /\ SlotExclusive = {} /\ SlotAvailable # {} =>
         /\ calc.later[1] = NextAvailable(calc.res)
         /\ \A j \in 1..(Len(calc.later) - 1) :
              calc.later[j + 1] = NextAvailable(calc.later[j])
         /\ SlotRound = SlotAvailable
         /\ calc.now % 5 = 4 => calc.later[1] # calc.res \/ Cardinality(SlotAvailable) = 1
         /\ calc.later[Cardinality(SlotAvailable)] = calc.res

\* the bottom-right slot without tide, with altitude, sun and moon age: in
\* the period after the sun countdown the moon age is shown
C28_Witness ==
  /\ calc.fn = "slot" /\ calc.table = "br"
  /\ SlotAvailable = {1, 2, 4} /\ calc.res = 2 /\ calc.later[1] = 4
  /\ calc.later[2] = 1 /\ calc.later[3] = 2

(***************************************************************************)
(* C29: across calls of tl_draw_steps at non-decreasing clock values the   *)
(* health service is queried at most once per minute: two queries are at   *)
(* least 60 seconds apart, and every call shows the step count of the      *)
(* last query.                                                             *)
(***************************************************************************)
C29_StepsCached ==
  universe = "steps" /\ draw.ops > 0 =>
    /\ draw.queries # <<>>
    /\ \A k \in 1..(Len(draw.queries) - 1) :
         draw.queries[k + 1].at - draw.queries[k].at >= 60
    /\ draw.shown = StepsText(draw.queries[Len(draw.queries)].steps)
    /\ draw.clock - draw.queries[Len(draw.queries)].at < 60

\* a query, a draw from the cache 59 seconds later, and a second query one
\* second after that
C29_Witness ==
  /\ universe = "steps" /\ draw.ops = 3 /\ Len(draw.queries) = 2
  /\ draw.queries[1].steps = 9999 /\ draw.queries[2].steps = 12345
  /\ draw.queries[2].at - draw.queries[1].at = 60
  /\ draw.shown = "12k"

(***************************************************************************)
(* C30: for every SunTimes value the solver returns with both always       *)
(* flags clear and every local minute, br_draw_sun_cd shows the next sun   *)
(* event after now: 'SS' while the sun is up and 'SR' while it is down,    *)
(* with the forward distance to that event in minutes, in 0..1439.         *)
(***************************************************************************)
\* the sun is up at minute now of a day with sunrise at sr and sunset at ss
\* (a day that begins in daylight when the sunset comes first)
SunUpAt(now, sr, ss) ==
  IF sr < ss THEN sr <= now /\ now < ss ELSE now >= sr \/ now < ss

\* minutes from now forward to minute e of this day or the next
ForwardTo(now, e) == (e - now) % 1440

C30_NextSunEvent ==
  calc.fn = "suncd" /\ ~AnyAlways /\ calc.now_min >= 0 =>
    LET up == SunUpAt(calc.now_min, out.sunrise_min, out.sunset_min)
    IN  /\ calc.lab = IF up THEN "SS" ELSE "SR"
        /\ calc.dmin = ForwardTo(calc.now_min,
                                 IF up THEN out.sunset_min ELSE out.sunrise_min)
        /\ calc.dmin \in 0..1439

====
